---- MODULE Spec2Model ----
(***************************************************************************)
(* Model of the page-ordering engine of MyPdfAgent                         *)
(* (backend/mainAgent/myAgent/agents/pageOrderingAgent.py).                *)
(*                                                                         *)
(* Conventions.                                                            *)
(*  - Indices into the non-empty page list are 0-based as in the code;     *)
(*    TLA+ sequences are 1-based, so page i of the code is pages[i + 1].   *)
(*  - Floats are thousandths: 0.3 is 300, 0.6 * s + 0.4 * f is             *)
(*    (6 * s + 4 * f) \div 10 (exact for the multiples of 5 used here).    *)
(*  - A page text is one of the sample strings of SampleTexts.  What the   *)
(*    library calls of the code (str.lower, the "in" operator, re.findall) *)
(*    return on a sample is tabulated in TextFacts; everything the code    *)
(*    computes from those results is modelled.  Every sample but the two   *)
(*    long ones is shorter than 100 characters, so the slices [:100] ..    *)
(*    [:2000] keep it whole; LongText is cut by the [:500] of the          *)
(*    transition builder (Prefix), and its facts are those of its slices.  *)
(*  - A Python dict key that is absent is the value Absent (original_index)*)
(*    or a pair outside the DOMAIN (transition_scores).                    *)
(***************************************************************************)
EXTENDS Integers, Sequences, FiniteSets, TLC

\* ------------------------------------------------------------------ bounds

\* Largest number of pages (empty and non-empty) of a document given to
\* determine_page_order.
MaxPages == 4

\* Largest number of non-empty pages given directly to _llm_determine_order
\* and _combine_ordering_results.
MaxN == 3

\* Pages of a greedy walk over a table that records only two pairs.
MaxWalkN == 5

\* Largest number of pages given directly to _reinsert_empty_pages.
MaxReinsertPages == 5

\* Largest number of pages of a PDF given to reorder_pdf_pages.
MaxPdfPages == 3

\* ------------------------------------------------------- program constants

SemanticWeight == 6
FlowWeight == 4
FlowWindow == 500
FlowEmpty == 0
FlowHeadingPair == 800
FlowRomanHeading == 700
FlowRomanClause == 750
FlowArabicClause == 700
FlowNumberSequence == 600
FlowDefault == 300
MinFollowScore == 300
InitialBestScore == -1000
MissingScore == 0

\* ------------------------------------------------------------ basic helpers

\* "key not in dict" for original_index, and Python's None for best_next.
Absent == -1

\* list(range(n))
Range(n) == [k \in 1..n |-> k - 1]

Min(S) == CHOOSE x \in S : \A y \in S : x <= y

\* sorted(S) for a set of integers
RECURSIVE Sorted(_)
Sorted(S) == IF S = {} THEN <<>> ELSE <<Min(S)>> \o Sorted(S \ {Min(S)})

Elems(s) == {s[k] : k \in 1..Len(s)}

\* transition_scores.get((i, j), d)
Get(transition_scores, i, j, d) ==
    IF <<i, j>> \in DOMAIN transition_scores THEN transition_scores[<<i, j>>] ELSE d

IsPermutation(order, n) ==
    /\ Len(order) = n
    /\ \A v \in 0..(n - 1) : Cardinality({k \in 1..Len(order) : order[k] = v}) = 1

\* --------------------------------------------------------------- page texts

TitleText == "LOAN AGREEMENT BETWEEN ALPHA AND BETA"
PlainText == "Lorem ipsum dolor"
ArticleOneText == "ARTICLE I. Purpose of the loan"
ArticleTwoText == "ARTICLE II. Repayment terms"
DefinitionsText == "DEFINITIONS used below"
ContinuedText == "... continued from above"
SummaryText == "Executive Summary of the plan"
ProblemText == "Problem Statement and scope"
RomanClauseText == "Fees: i) setup ii) monthly"
RomanClauseNextText == "iii) late fee iv) penalty"
RomanClauseThirdText == "iii) late fee"
ArabicClauseText == "Step 1) sign 2) return"
ArabicClauseNextText == "3) file the forms"
NumberText == "Total due 41"
NumberNextText == "42 days notice"

\* A page longer than the transition builder's window: 500 characters of prose,
\* then a heading.
LongHeadText ==
    "Lorem ipsum dolor sit amet consectetur adipiscing "
    \o "Lorem ipsum dolor sit amet consectetur adipiscing "
    \o "Lorem ipsum dolor sit amet consectetur adipiscing "
    \o "Lorem ipsum dolor sit amet consectetur adipiscing "
    \o "Lorem ipsum dolor sit amet consectetur adipiscing "
    \o "Lorem ipsum dolor sit amet consectetur adipiscing "
    \o "Lorem ipsum dolor sit amet consectetur adipiscing "
    \o "Lorem ipsum dolor sit amet consectetur adipiscing "
    \o "Lorem ipsum dolor sit amet consectetur adipiscing "
    \o "Lorem ipsum dolor sit amet consectetur adipiscing "
LongText == LongHeadText \o SummaryText

SampleTexts ==
    { "", TitleText, PlainText, ArticleOneText, ArticleTwoText, DefinitionsText,
      ContinuedText, SummaryText, ProblemText, RomanClauseText, RomanClauseNextText,
      RomanClauseThirdText, ArabicClauseText, ArabicClauseNextText, NumberText, NumberNextText,
      LongHeadText, LongText }

NoFacts ==
    [ phrases |-> {}, roman |-> <<>>, clause |-> <<>>, numbers |-> <<>>,
      LOAN_AGREEMENT |-> FALSE, BETWEEN |-> FALSE, ARTICLE |-> FALSE,
      I_1_ONE |-> TRUE, DEFINITIONS |-> FALSE, starts_LOAN_AGREEMENT |-> FALSE,
      first_lines |-> << [AGREEMENT |-> FALSE, BETWEEN_AND |-> FALSE] >>,
      starts_dash |-> FALSE, CONTINUED |-> FALSE, AS_SET_FORTH |-> FALSE ]

\* A clause match of re.findall(r'([ivxlcdm]+)\)|(\d+)\)', ...): the tuple of the
\* two groups; the group that did not take part is "" (roman) or Absent (digits,
\* whose digit string is given by its value).
RomanMark(r) == [roman |-> r, arabic |-> Absent]
ArabicMark(n) == [roman |-> "", arabic |-> n]

\* What the string tests and regular expressions of _calculate_flow_score and
\* _create_embedding_based_order find in each sample text.
TextFacts(text) ==
    CASE text = "" ->
           [NoFacts EXCEPT !.I_1_ONE = FALSE]
      [] text = TitleText ->
           [NoFacts EXCEPT !.LOAN_AGREEMENT = TRUE, !.BETWEEN = TRUE, !.I_1_ONE = FALSE,
                           !.starts_LOAN_AGREEMENT = TRUE,
                           !.first_lines = << [AGREEMENT |-> TRUE, BETWEEN_AND |-> TRUE] >>]
      [] text = PlainText -> NoFacts
      [] text = ArticleOneText ->
           [NoFacts EXCEPT !.roman = << "i" >>, !.ARTICLE = TRUE]
      [] text = ArticleTwoText ->
           [NoFacts EXCEPT !.roman = << "ii" >>, !.ARTICLE = TRUE]
      [] text = DefinitionsText ->
           [NoFacts EXCEPT !.DEFINITIONS = TRUE]
      [] text = ContinuedText ->
           [NoFacts EXCEPT !.starts_dash = TRUE, !.CONTINUED = TRUE]
      [] text = SummaryText ->
           [NoFacts EXCEPT !.phrases = {"executive summary", "summary"}]
      [] text = ProblemText ->
           [NoFacts EXCEPT !.phrases = {"problem statement"}, !.I_1_ONE = FALSE]
      [] text = RomanClauseText ->
           [NoFacts EXCEPT !.clause = << RomanMark("i"), RomanMark("ii") >>]
      [] text = RomanClauseNextText ->
           [NoFacts EXCEPT !.clause = << RomanMark("iii"), RomanMark("iv") >>]
      [] text = RomanClauseThirdText ->
           [NoFacts EXCEPT !.clause = << RomanMark("iii") >>]
      [] text = ArabicClauseText ->
           [NoFacts EXCEPT !.clause = << ArabicMark(1), ArabicMark(2) >>,
                           !.numbers = << 1, 2 >>]
      [] text = ArabicClauseNextText ->
           [NoFacts EXCEPT !.clause = << ArabicMark(3) >>, !.numbers = << 3 >>]
      [] text = NumberText ->
           [NoFacts EXCEPT !.numbers = << 41 >>]
      [] text = NumberNextText ->
           [NoFacts EXCEPT !.numbers = << 42 >>]
      [] text = LongHeadText -> NoFacts
      [] text = LongText ->
           [NoFacts EXCEPT !.phrases = {"executive summary", "summary"}]

\* ------------------------------------------------------------- Flow Scorer

flow_indicators ==
    { <<"executive summary", "problem statement">>, <<"introduction", "methodology">>,
      <<"problem statement", "solution">>, <<"abstract", "introduction">>,
      <<"section 1", "section 2">>, <<"part i", "part ii">>,
      <<"chapter 1", "chapter 2">>, <<"conclusion", "references">>,
      <<"summary", "references">> }

\* The keys of the two roman_numerals dicts, in value order: a key's value is
\* its position.  The heading rule knows the first 10, the clause rule all 20.
roman_numerals ==
    << "i", "ii", "iii", "iv", "v", "vi", "vii", "viii", "ix", "x",
       "xi", "xii", "xiii", "xiv", "xv", "xvi", "xvii", "xviii", "xix", "xx" >>

HeadingNumerals == 10
ClauseNumerals == 20

InRoman(s, limit) == \E k \in 1..limit : roman_numerals[k] = s
RomanValue(s, limit) == CHOOSE k \in 1..limit : roman_numerals[k] = s

Last(s) == s[Len(s)]

\* The value a clause match leaves in last_clause / first_clause: the roman
\* group lower-cased, else int() of the digits.
ClauseValue(match) ==
    IF match.roman # "" THEN [type |-> "str", roman |-> match.roman, number |-> 0]
    ELSE [type |-> "int", roman |-> "", number |-> match.arabic]

\* Python truth of that value: a non-empty string, a non-zero int.
Truthy(v) == IF v.type = "str" THEN v.roman # "" ELSE v.number # 0

HeadingPairRule(before, after) ==
    \E pair \in flow_indicators :
        pair[1] \in TextFacts(before).phrases /\ pair[2] \in TextFacts(after).phrases

RomanHeadingRule(before, after) ==
    LET roman_before == TextFacts(before).roman
        roman_after == TextFacts(after).roman
    IN  /\ roman_before # <<>> /\ roman_after # <<>>
        /\ InRoman(Last(roman_before), HeadingNumerals)
        /\ InRoman(Head(roman_after), HeadingNumerals)
        /\ RomanValue(Head(roman_after), HeadingNumerals)
             = RomanValue(Last(roman_before), HeadingNumerals) + 1

\* Both loops of the clause rule run over every match without a break, so both
\* last_clause and first_clause end as the LAST match of their text.
ClauseRule(before, after) ==
    LET clause_before == TextFacts(before).clause
        clause_after == TextFacts(after).clause
        last_clause == ClauseValue(Last(clause_before))
        first_clause == ClauseValue(Last(clause_after))
    IN  IF clause_before = <<>> \/ clause_after = <<>> THEN Absent
        ELSE IF ~(Truthy(last_clause) /\ Truthy(first_clause)) THEN Absent
        ELSE IF last_clause.type = "str" /\ first_clause.type = "str"
             THEN IF /\ InRoman(last_clause.roman, ClauseNumerals)
                     /\ InRoman(first_clause.roman, ClauseNumerals)
                     /\ RomanValue(first_clause.roman, ClauseNumerals)
                          = RomanValue(last_clause.roman, ClauseNumerals) + 1
                  THEN FlowRomanClause ELSE Absent
        ELSE IF last_clause.type = "int" /\ first_clause.type = "int"
             THEN IF first_clause.number = last_clause.number + 1
                  THEN FlowArabicClause ELSE Absent
        ELSE Absent

NumberRule(before, after) ==
    LET numbers_before == TextFacts(before).numbers
        numbers_after == TextFacts(after).numbers
    IN  /\ numbers_before # <<>> /\ numbers_after # <<>>
        /\ Head(numbers_after) = Last(numbers_before) + 1

\* calculate_flow_score whose default is 0.0.
calculate_flow_score_zero_default(text_before, text_after) ==
    IF text_before = "" \/ text_after = "" THEN FlowEmpty
    ELSE IF HeadingPairRule(text_before, text_after) THEN FlowHeadingPair
    ELSE IF RomanHeadingRule(text_before, text_after) THEN FlowRomanHeading
    ELSE IF ClauseRule(text_before, text_after) # Absent
         THEN ClauseRule(text_before, text_after)
    ELSE IF NumberRule(text_before, text_after) THEN FlowNumberSequence
    ELSE FlowEmpty

calculate_flow_score(text_before, text_after) ==
    IF text_before = "" \/ text_after = "" THEN FlowEmpty
    ELSE IF HeadingPairRule(text_before, text_after) THEN FlowHeadingPair
    ELSE IF RomanHeadingRule(text_before, text_after) THEN FlowRomanHeading
    ELSE IF ClauseRule(text_before, text_after) # Absent
         THEN ClauseRule(text_before, text_after)
    ELSE IF NumberRule(text_before, text_after) THEN FlowNumberSequence
    ELSE FlowDefault

\* ----------------------------------------------- Transition Matrix Builder

\* Embedding vectors the embedding service may return, as integer coordinates.
\* All have length 5, so the cosine of two of them is their dot product / 25;
\* two of them point in opposite directions.
Vectors == { <<5, 0>>, <<3, 4>>, <<0, 5>>, <<-5, 0>> }

VectorNorm == 5

\* sklearn's cosine_similarity on one pair of vectors, in thousandths.
cosine_similarity(u, v) ==
    ((u[1] * v[1] + u[2] * v[2]) * 1000) \div (VectorNorm * VectorNorm)

\* A page presented to the engine.  original_index is Absent until a stage
\* annotates a copy (or, for an empty page, the record itself).
Page(page_number, is_empty, text) ==
    [ page_number |-> page_number, is_empty |-> is_empty, text |-> text,
      original_index |-> Absent ]

\* similarity_matrix[i][j] for the embeddings of the pages (0-based i, j)
Similarity(embeddings, i, j) == cosine_similarity(embeddings[i + 1], embeddings[j + 1])

calculate_transition_scores_whole_text(pages, embeddings) ==
    [ pair \in {<<i, j>> \in (0..(Len(pages) - 1)) \X (0..(Len(pages) - 1)) : i # j} |->
        (cosine_similarity(embeddings[pair[1] + 1], embeddings[pair[2] + 1]) * 6
           + calculate_flow_score(pages[pair[1] + 1].text, pages[pair[2] + 1].text) * 4)
          \div 10 ]

\* text[:n]
Prefix(text, n) == IF Len(text) <= n THEN text ELSE SubSeq(text, 1, n)

calculate_transition_scores(pages, embeddings) ==
    [ pair \in {<<i, j>> \in (0..(Len(pages) - 1)) \X (0..(Len(pages) - 1)) : i # j} |->
        LET semantic_score == Similarity(embeddings, pair[1], pair[2])
            text_i == Prefix(pages[pair[1] + 1].text, FlowWindow)
            text_j == Prefix(pages[pair[2] + 1].text, FlowWindow)
            flow_score == calculate_flow_score(text_i, text_j)
        IN  (semantic_score * SemanticWeight + flow_score * FlowWeight) \div 10 ]

\* ------------------------------------------- Heuristic Title-Page Order (4.5)

CueLoanAgreementBetween == 20
CueLoanAgreement == 15
CueArticleOne == 12
CueDefinitions == 10
CueStartsLoanAgreement == 15
CueAgreementLine == 8
CueBetweenAndLine == 8
PenaltyLeadingDash == 5
PenaltyContinued == 3
PenaltyMiddle == 2

RECURSIVE FirstLinesScore(_)
FirstLinesScore(first_lines) ==
    IF first_lines = <<>> THEN 0
    ELSE (IF Head(first_lines).AGREEMENT THEN CueAgreementLine ELSE 0)
         + (IF Head(first_lines).BETWEEN_AND THEN CueBetweenAndLine ELSE 0)
         + FirstLinesScore(Tail(first_lines))

\* The score of one page as a start candidate.
StartScore(text) ==
    LET f == TextFacts(text)
    IN  (IF f.LOAN_AGREEMENT /\ f.BETWEEN THEN CueLoanAgreementBetween ELSE 0)
        + (IF f.LOAN_AGREEMENT THEN CueLoanAgreement ELSE 0)
        + (IF f.ARTICLE /\ f.I_1_ONE THEN CueArticleOne ELSE 0)
        + (IF f.DEFINITIONS THEN CueDefinitions ELSE 0)
        + (IF f.starts_LOAN_AGREEMENT THEN CueStartsLoanAgreement ELSE 0)
        + FirstLinesScore(f.first_lines)
        - (IF f.starts_dash THEN PenaltyLeadingDash ELSE 0)
        - (IF f.CONTINUED THEN PenaltyContinued ELSE 0)
        - (IF f.AS_SET_FORTH THEN PenaltyMiddle ELSE 0)

\* StartPage with the ties going to the lowest index (a sort on the score alone).
StartPageLowestIndex(pages) ==
    CHOOSE i \in 0..(Len(pages) - 1) :
        \A j \in 0..(Len(pages) - 1) :
            \/ StartScore(pages[i + 1].text) > StartScore(pages[j + 1].text)
            \/ StartScore(pages[i + 1].text) = StartScore(pages[j + 1].text) /\ i <= j

\* start_candidates.sort(reverse=True); start_candidates[0][1]: the tuples
\* (score, i) in descending order, so the greatest index among the best scores.
StartPage(pages) ==
    CHOOSE i \in 0..(Len(pages) - 1) :
        \A j \in 0..(Len(pages) - 1) :
            \/ StartScore(pages[i + 1].text) > StartScore(pages[j + 1].text)
            \/ StartScore(pages[i + 1].text) = StartScore(pages[j + 1].text) /\ i >= j

\* The inner for loop of both greedy walks: the candidates are visited in
\* ascending order (CPython's order for a set of small ints) and a candidate
\* replaces the best only if its score is strictly higher.
RECURSIVE ScanBest(_, _, _, _, _)
ScanBest(transition_scores, current, candidates, best_next, best_score) ==
    IF candidates = <<>> THEN [best_next |-> best_next, best_score |-> best_score]
    ELSE LET next_idx == Head(candidates)
             score == Get(transition_scores, current, next_idx, MissingScore)
         IN  IF score > best_score
             THEN ScanBest(transition_scores, current, Tail(candidates), next_idx, score)
             ELSE ScanBest(transition_scores, current, Tail(candidates), best_next, best_score)

\* The best candidate with ties going to the highest index.
BestNextHighestIndex(transition_scores, current, remaining) ==
    LET best ==
            CHOOSE i \in remaining :
                \A j \in remaining :
                    \/ Get(transition_scores, current, i, 0) > Get(transition_scores, current, j, 0)
                    \/ /\ Get(transition_scores, current, i, 0) = Get(transition_scores, current, j, 0)
                       /\ i >= j
    IN  [best_next |-> best, best_score |-> Get(transition_scores, current, best, 0)]

BestNext(transition_scores, current, remaining) ==
    ScanBest(transition_scores, current, Sorted(remaining), Absent, InitialBestScore)

\* The while loop of _create_embedding_based_order.
RECURSIVE EmbeddingWalk(_, _, _)
EmbeddingWalk(transition_scores, ordered_indices, remaining) ==
    IF remaining = {} THEN ordered_indices
    ELSE LET best == BestNext(transition_scores, Last(ordered_indices), remaining)
         IN  IF best.best_next # Absent /\ best.best_score > MinFollowScore
             THEN EmbeddingWalk(transition_scores,
                                Append(ordered_indices, best.best_next),
                                remaining \ {best.best_next})
             ELSE ordered_indices \o Sorted(remaining)

create_embedding_based_order(pages, transition_scores) ==
    IF Len(pages) <= 1 THEN Range(Len(pages))
    ELSE LET start_page == StartPage(pages)
         IN  EmbeddingWalk(transition_scores, <<start_page>>,
                           (0..(Len(pages) - 1)) \ {start_page})

\* ---------------------------------------------------- Order Reconciler (4.4)

\* pages[idx].copy() with page_copy['original_index'] = idx
PageCopy(pages, idx) == [pages[idx + 1] EXCEPT !.original_index = idx]

CopyAll(pages, indices) == [k \in 1..Len(indices) |-> PageCopy(pages, indices[k])]

RECURSIVE SumOutgoing(_, _, _)
SumOutgoing(transition_scores, i, j) ==
    IF j < 0 THEN 0
    ELSE Get(transition_scores, i, j, MissingScore) + SumOutgoing(transition_scores, i, j - 1)

Outgoing(pages, transition_scores, i) == SumOutgoing(transition_scores, i, Len(pages) - 1)

\* A walk that always starts at the first page.
PathStartFirstPage(pages, transition_scores) == 0

\* The start loop replaces start_page only on a strictly greater outgoing sum:
\* the lowest index among those with the greatest sum.
PathStart(pages, transition_scores) ==
    CHOOSE i \in 0..(Len(pages) - 1) :
        /\ \A j \in 0..(Len(pages) - 1) :
               Outgoing(pages, transition_scores, j) <= Outgoing(pages, transition_scores, i)
        /\ \A j \in 0..(i - 1) :
               Outgoing(pages, transition_scores, j) < Outgoing(pages, transition_scores, i)

\* The while loop of _create_path_from_transitions.
RECURSIVE PathWalk(_, _, _)
PathWalk(transition_scores, ordered_indices, remaining) ==
    IF remaining = {} THEN ordered_indices
    ELSE LET best == BestNext(transition_scores, Last(ordered_indices), remaining)
         IN  IF best.best_next # Absent
             THEN PathWalk(transition_scores,
                           Append(ordered_indices, best.best_next),
                           remaining \ {best.best_next})
             ELSE ordered_indices \o Sorted(remaining)

PathIndices(pages, transition_scores) ==
    LET start_page == PathStart(pages, transition_scores)
    IN  PathWalk(transition_scores, <<start_page>>, (0..(Len(pages) - 1)) \ {start_page})

create_path_from_transitions(pages, transition_scores) ==
    IF pages = <<>> THEN <<>>
    ELSE CopyAll(pages, PathIndices(pages, transition_scores))

\* AppliedOrder without the identity suspicion: the candidate is always applied.
AppliedOrderTrusting(pages, order, transition_scores) == order

\* The order the Reconciler applies: the candidate, or the heuristic order when
\* the candidate is the identity and the heuristic order is not.
AppliedOrder(pages, order, transition_scores) ==
    IF order = Range(Len(pages))
    THEN LET embedding_order == create_embedding_based_order(pages, transition_scores)
         IN  IF embedding_order # Range(Len(pages)) THEN embedding_order ELSE order
    ELSE order

\* ValidIndices without the seen_indices test: repeated indices are kept.
RECURSIVE ValidIndicesKeepingRepeats(_, _, _)
ValidIndicesKeepingRepeats(indices, n, seen_indices) ==
    IF indices = <<>> THEN <<>>
    ELSE LET idx == Head(indices)
         IN  IF 0 <= idx /\ idx < n
             THEN <<idx>> \o ValidIndicesKeepingRepeats(Tail(indices), n, seen_indices)
             ELSE ValidIndicesKeepingRepeats(Tail(indices), n, seen_indices)

\* The validation loop: in-range indices in order of first occurrence.
RECURSIVE ValidIndices(_, _, _)
ValidIndices(indices, n, seen_indices) ==
    IF indices = <<>> THEN <<>>
    ELSE LET idx == Head(indices)
         IN  IF 0 <= idx /\ idx < n
             THEN IF idx \in seen_indices
                  THEN ValidIndices(Tail(indices), n, seen_indices)
                  ELSE <<idx>> \o ValidIndices(Tail(indices), n, seen_indices \cup {idx})
             ELSE ValidIndices(Tail(indices), n, seen_indices)

\* combine_ordering_results that ignores the candidate and always builds the
\* greedy path.
combine_by_greedy_path(pages, order, transition_scores) ==
    create_path_from_transitions(pages, transition_scores)

\* combine_ordering_results that keeps an incomplete candidate and appends the
\* pages it misses in ascending order.
combine_completing_candidate(pages, order, transition_scores) ==
    LET valid_indices == ValidIndices(AppliedOrder(pages, order, transition_scores),
                                      Len(pages), {})
    IN  CopyAll(pages, valid_indices \o Sorted((0..(Len(pages) - 1)) \ Elems(valid_indices)))

combine_ordering_results(pages, order, transition_scores) ==
    LET llm_order_indices == AppliedOrder(pages, order, transition_scores)
        ordered_pages == CopyAll(pages, ValidIndices(llm_order_indices, Len(pages), {}))
    IN  IF Len(ordered_pages) # Len(pages)
        THEN create_path_from_transitions(pages, transition_scores)
        ELSE ordered_pages

\* ----------------------------------------------- Empty-Page Reinsertion (4.6)

NonEmpty(pages) == SelectSeq(pages, LAMBDA p : ~p.is_empty)
Empty(pages) == SelectSeq(pages, LAMBDA p : p.is_empty)

PageNumbers(pages) == [k \in 1..Len(pages) |-> pages[k].page_number]

UnknownPosition == 9999

\* original_positions.get(page_number, default): the dict comprehension keeps
\* the last position of a page number.
OriginalPosition(all_original_pages, page_number, default) ==
    LET at == {i \in 1..Len(all_original_pages) :
                   all_original_pages[i].page_number = page_number}
    IN  IF at = {} THEN default ELSE (CHOOSE i \in at : \A k \in at : k <= i) - 1

\* Insert as an assignment result[position] = page: the page there is replaced.
InsertOverwriting(result, position, page) ==
    SubSeq(result, 1, position) \o <<page>> \o SubSeq(result, position + 2, Len(result))

\* result.insert(position, page), position 0-based
Insert(result, position, page) ==
    SubSeq(result, 1, position) \o <<page>> \o SubSeq(result, position + 1, Len(result))

\* InsertPosition one place further: the empty page goes after the page found.
InsertPositionAfter(result, ordered_pages, all_original_pages, empty_original_pos) ==
    LET later == {i \in 1..Len(ordered_pages) :
                      OriginalPosition(all_original_pages, ordered_pages[i].page_number,
                                       UnknownPosition) > empty_original_pos}
    IN  IF later = {} THEN Len(result)
        ELSE LET ordered_page_num == ordered_pages[Min(later)].page_number
                 found == {j \in 1..Len(result) : result[j].page_number = ordered_page_num}
             IN  IF found = {} THEN Len(result) ELSE Min(found)

\* InsertPosition taken in ordered_pages instead of the growing result.
InsertPositionInOrdered(result, ordered_pages, all_original_pages, empty_original_pos) ==
    LET later == {i \in 1..Len(ordered_pages) :
                      OriginalPosition(all_original_pages, ordered_pages[i].page_number,
                                       UnknownPosition) > empty_original_pos}
    IN  IF later = {} THEN Len(result) ELSE Min(later) - 1

\* The search for one empty page: the first page of ordered_pages that came
\* after it originally, then the first place of that page number in result.
InsertPosition(result, ordered_pages, all_original_pages, empty_original_pos) ==
    LET later == {i \in 1..Len(ordered_pages) :
                      OriginalPosition(all_original_pages, ordered_pages[i].page_number,
                                       UnknownPosition) > empty_original_pos}
    IN  IF later = {} THEN Len(result)
        ELSE LET ordered_page_num == ordered_pages[Min(later)].page_number
                 found == {j \in 1..Len(result) : result[j].page_number = ordered_page_num}
             IN  IF found = {} THEN Len(result) ELSE Min(found) - 1

RECURSIVE ReinsertLoop(_, _, _, _)
ReinsertLoop(result, empty_pages, ordered_pages, all_original_pages) ==
    IF empty_pages = <<>> THEN result
    ELSE LET empty_page == Head(empty_pages)
             empty_original_pos ==
                 OriginalPosition(all_original_pages, empty_page.page_number, -1)
         IN  IF empty_original_pos < 0
             THEN ReinsertLoop(result, Tail(empty_pages), ordered_pages, all_original_pages)
             ELSE ReinsertLoop(
                      Insert(result,
                             InsertPosition(result, ordered_pages, all_original_pages,
                                            empty_original_pos),
                             empty_page),
                      Tail(empty_pages), ordered_pages, all_original_pages)

\* Reinsertion as a stable sort of all pages by original position.
reinsert_by_original_position(ordered_pages, empty_pages, all_original_pages) ==
    [k \in 1..Len(all_original_pages) |->
        IF all_original_pages[k].is_empty THEN all_original_pages[k]
        ELSE LET at == {j \in 1..Len(ordered_pages) :
                            ordered_pages[j].page_number = all_original_pages[k].page_number}
             IN  ordered_pages[Min(at)]]

\* Reinsertion that puts every empty page after the reordered pages.
reinsert_after_ordered_pages(ordered_pages, empty_pages, all_original_pages) ==
    ordered_pages \o empty_pages

reinsert_empty_pages(ordered_pages, empty_pages, all_original_pages) ==
    IF empty_pages = <<>> THEN ordered_pages
    ELSE ReinsertLoop(ordered_pages, empty_pages, ordered_pages, all_original_pages)

\* ------------------------------------------------ Confidence Estimator (4.7)

ConfidenceEmpty == 500
ConfidenceFirst == 700
ConfidenceBoundary == 600
ConfidenceBoost == 200
ConfidenceMissing == 500
ConfidenceMax == 1000
ConfidenceShortCircuit == 1000
ConfidenceFailure == 500

OrDefault(value, default) == IF value = Absent THEN default ELSE value

\* The transition looked up by position in the final order.
ConfidenceAtByPosition(ordered_pages, transition_scores, i) ==
    LET page == ordered_pages[i + 1]
    IN  IF page.is_empty THEN ConfidenceEmpty
        ELSE IF i = 0 THEN ConfidenceFirst
        ELSE IF ~ordered_pages[i].is_empty
             THEN LET transition_score == Get(transition_scores, i - 1, i, ConfidenceMissing)
                  IN  IF transition_score + ConfidenceBoost > ConfidenceMax
                      THEN ConfidenceMax ELSE transition_score + ConfidenceBoost
             ELSE ConfidenceBoundary

ConfidenceAt(ordered_pages, transition_scores, i) ==
    LET page == ordered_pages[i + 1]
    IN  IF page.is_empty THEN ConfidenceEmpty
        ELSE IF i = 0 THEN ConfidenceFirst
        ELSE LET prev_page == ordered_pages[i]
                 prev_idx == OrDefault(prev_page.original_index, i - 1)
                 curr_idx == OrDefault(page.original_index, i)
             IN  IF ~prev_page.is_empty /\ ~page.is_empty
                 THEN LET transition_score ==
                              Get(transition_scores, prev_idx, curr_idx, ConfidenceMissing)
                      IN  IF transition_score + ConfidenceBoost > ConfidenceMax
                          THEN ConfidenceMax ELSE transition_score + ConfidenceBoost
                 ELSE ConfidenceBoundary

calculate_confidence_scores(ordered_pages, transition_scores) ==
    [k \in 1..Len(ordered_pages) |-> ConfidenceAt(ordered_pages, transition_scores, k - 1)]

\* ---------------------------------------------- Oracle Order Requester (4.3)

\* An element of a JSON array in the oracle's response: a JSON integer, a
\* string that is no number (such as "two"), or a number json.loads reads as the
\* float infinity (such as 1e999).
JsonInt(v) == [type |-> "int", val |-> v]
JsonWord == [type |-> "str", val |-> 0]
JsonInfinity == [type |-> "inf", val |-> 0]

\* What the regular expressions and json.loads of the parsing strategies find in
\* a response text:
\*   obj  the JSON object the patterns of strategy 1 match and json.loads
\*        decodes ("none": no pattern yields a decodable object), with its
\*        "order" member: missing, a list, or a scalar that is no list;
\*   arr  the numeric array [\s\d,]+ the patterns of strategy 2 match and
\*        json.loads decodes ("none": no such array);
\*   reasoning  the text of the "reasoning" member, which the reasoning pattern
\*        of strategy 3 finds too ("": the response has none).
NoObject == [kind |-> "none", order_kind |-> "missing", order |-> <<>>]
Object(order_kind, order) == [kind |-> "dict", order_kind |-> order_kind, order |-> order]
NoArray == [kind |-> "none", values |-> <<>>]
Array(values) == [kind |-> "array", values |-> values]

ResponseText(obj, arr, reasoning) == [obj |-> obj, arr |-> arr, reasoning |-> reasoning]

NoResponse == ResponseText(NoObject, NoArray, "")

\* The dict llm_agent.query returns, or the exception it raises.
QueryFailed == [outcome |-> "failed", response |-> NoResponse]
QueryRaised == [outcome |-> "raised", response |-> NoResponse]
QueryAnswered(response) == [outcome |-> "success", response |-> response]
NotQueried == [outcome |-> "none", response |-> NoResponse]

ReasoningQueryFailed == "LLM query failed, using original order"
ReasoningError == "Error: oracle raised"
ReasoningOverflow == "Error: cannot convert float infinity to integer"
ReasoningDefault == "Ordering based on logical flow"
ReasoningNotParseable == "LLM response not parseable, using embedding similarity analysis"
ReasoningOracle == "Pages follow the article numbering"
ReasoningInsufficient == "Not enough pages to reorder"

\* parsed_order as a Python value: None, a list, or a (truthy) scalar.
PyNone == [kind |-> "none", items |-> <<>>]
PyList(items) == [kind |-> "list", items |-> items]
PyScalar == [kind |-> "scalar", items |-> <<>>]

\* "if parsed_order": a non-empty list or a scalar.
ParsedTruthy(parsed_order) ==
    \/ parsed_order.kind = "scalar"
    \/ parsed_order.kind = "list" /\ parsed_order.items # <<>>

\* Strategy 1: parsed.get('order') of the decoded object.
Strategy1(response) ==
    IF response.obj.kind = "none" THEN PyNone
    ELSE IF response.obj.order_kind = "missing" THEN PyNone
    ELSE IF response.obj.order_kind = "list" THEN PyList(response.obj.order)
    ELSE PyScalar

\* Strategy 2, tried only when strategy 1 left nothing truthy: the decoded array.
Strategy2(response, parsed_order) ==
    IF ParsedTruthy(parsed_order) THEN parsed_order
    ELSE IF response.arr.kind = "array" THEN PyList(response.arr.values)
    ELSE parsed_order

\* The reasoning after strategies 1 and 3.
ParsedReasoning(response) ==
    IF response.reasoning # "" THEN response.reasoning ELSE ReasoningDefault

\* int(x) succeeds on every element
Convertible(items) == \A k \in 1..Len(items) : items[k].type = "int"

\* The exception of [int(x) for x in parsed_order]: that of the first element
\* int() cannot convert.  int("two") raises ValueError, int(float("inf"))
\* raises OverflowError.
ConversionError(items) ==
    IF Convertible(items) THEN "none"
    ELSE IF items[Min({k \in 1..Len(items) : items[k].type # "int"})].type = "inf"
    THEN "OverflowError"
    ELSE "ValueError"

\* [int(x) for x in parsed_order]
ToInts(items) == [k \in 1..Len(items) |-> items[k].val]

\* len(parsed_order) == len(pages) and set(parsed_order) == set(range(len(pages)))
ValidOrder(order, n) == Len(order) = n /\ Elems(order) = 0..(n - 1)

\* True when the validation accepts the parsed order of the response.
Accepted(response, n) ==
    LET parsed_order == Strategy2(response, Strategy1(response))
    IN  /\ ParsedTruthy(parsed_order)
        /\ parsed_order.kind = "list"
        /\ Convertible(parsed_order.items)
        /\ ValidOrder(ToInts(parsed_order.items), n)

\* What a call of _llm_determine_order ends with: the dict it returns, or an
\* exception that leaves it.
CandidateOrder(order, reasoning) == [order |-> order, reasoning |-> reasoning, raised |-> FALSE]
Raises == [order |-> <<>>, reasoning |-> "", raised |-> TRUE]

\* True when the conversion of the parsed order raises an exception that the
\* handler of lines 468-469 (ValueError, TypeError) does not catch.
Overflows(response) ==
    LET parsed_order == Strategy2(response, Strategy1(response))
    IN  /\ ParsedTruthy(parsed_order)
        /\ parsed_order.kind = "list"
        /\ ConversionError(parsed_order.items) = "OverflowError"

\* llm_determine_order answering a failed request with the heuristic order.
llm_determine_order_heuristic_on_failure(pages, transition_scores, result) ==
    IF result.outcome = "success" /\ Accepted(result.response, Len(pages))
    THEN CandidateOrder(ToInts(Strategy2(result.response, Strategy1(result.response)).items),
                        ParsedReasoning(result.response))
    ELSE IF result.outcome = "success" /\ Overflows(result.response)
    THEN CandidateOrder(Range(Len(pages)), ReasoningOverflow)
    ELSE CandidateOrder(create_embedding_based_order(pages, transition_scores),
                        ReasoningNotParseable)

\* llm_determine_order without its except clause: an exception of the oracle
\* call leaves it.
llm_determine_order_uncaught(pages, transition_scores, result) ==
    IF result.outcome = "raised" THEN Raises
    ELSE IF result.outcome # "success"
    THEN CandidateOrder(Range(Len(pages)), ReasoningQueryFailed)
    ELSE IF Accepted(result.response, Len(pages))
    THEN CandidateOrder(ToInts(Strategy2(result.response, Strategy1(result.response)).items),
                        ParsedReasoning(result.response))
    ELSE IF Overflows(result.response)
    THEN Raises
    ELSE CandidateOrder(create_embedding_based_order(pages, transition_scores),
                        ReasoningNotParseable)

\* _llm_determine_order from the point where llm_agent.query has returned
\* (or raised): the except clause of lines 477-479 turns an exception, of the
\* oracle call or of the parsing, into the identity order.
llm_determine_order(pages, transition_scores, result) ==
    IF result.outcome = "raised"
    THEN CandidateOrder(Range(Len(pages)), ReasoningError)
    ELSE IF result.outcome # "success"
    THEN CandidateOrder(Range(Len(pages)), ReasoningQueryFailed)
    ELSE IF Accepted(result.response, Len(pages))
    THEN CandidateOrder(ToInts(Strategy2(result.response, Strategy1(result.response)).items),
                        ParsedReasoning(result.response))
    ELSE IF Overflows(result.response)
    THEN CandidateOrder(Range(Len(pages)), ReasoningOverflow)
    ELSE CandidateOrder(create_embedding_based_order(pages, transition_scores),
                        ReasoningNotParseable)

\* ------------------------------------------------------------------- inputs

\* All sequences over S of length lo..hi
Lists(S, lo, hi) == UNION {[1..k -> S] : k \in lo..hi}

Perms(n) == {order \in [1..n -> 0..(n - 1)] : IsPermutation(order, n)}

Reverse(n) == [k \in 1..n |-> n - k]
Rotate(n) == [k \in 1..n |-> k % n]

\* Documents as the extraction stage produces them: page k of the scan has
\* page_number k, an empty page has no text.
Document(texts) ==
    [k \in 1..Len(texts) |-> Page(k, texts[k] = "", texts[k])]

PipelineTexts == {"", TitleText, PlainText, ArticleOneText, ArticleTwoText}

\* The embedding service is a function of the text; these are the services the
\* model runs against.
SameTopic == [text \in SampleTexts |-> <<5, 0>>]
ByKind ==
    [text \in SampleTexts |->
        IF text = TitleText THEN <<5, 0>>
        ELSE IF text \in {ArticleOneText, ArticleTwoText} THEN <<0, 5>>
        ELSE <<3, 4>>]
ByHeading ==
    [text \in SampleTexts |->
        IF text = TitleText THEN <<5, 0>>
        ELSE IF text = ArticleTwoText THEN <<0, 5>>
        ELSE <<3, 4>>]
Encoders == {SameTopic, ByKind, ByHeading}

Encode(encoder, pages) == [k \in 1..Len(pages) |-> encoder[pages[k].text]]

\* Transition-score tables for the operations that take one as an argument.
Pairs(n) == {pair \in (0..(n - 1)) \X (0..(n - 1)) : pair[1] # pair[2]}
NoScores == [pair \in {} |-> 0]
Uniform(n, v) == [pair \in Pairs(n) |-> v]
Favouring(order, high, low) ==
    [pair \in Pairs(Len(order)) |->
        IF \E k \in 1..(Len(order) - 1) : order[k] = pair[1] /\ order[k + 1] = pair[2]
        THEN high ELSE low]

HighScore == 900
LowScores == {100, 400}

ScoreTables(n) ==
    {NoScores, Uniform(n, 0), Uniform(n, FlowDefault)}
    \cup {Favouring(order, HighScore, low) : order \in Perms(n), low \in LowScores}

\* Tables that record two pairs only: one high score and one low one.
SparseTables(n) ==
    { [pair \in {high, other} |-> IF pair = high THEN HighScore ELSE low] :
          high \in Pairs(n), other \in Pairs(n), low \in LowScores }

FewTables(n) == {Uniform(n, FlowDefault), Favouring(Reverse(n), HighScore, 100)}

\* Candidate orders: every list of integers -1..n of length 0..n+1, and a few
\* named ones.
AnyOrders(n) == Lists(-1..n, 0, n + 1)
SampleOrders(n) ==
    {Range(n), Reverse(n), Rotate(n), [k \in 1..n |-> 0], Range(n + 1), Range(n - 1), <<>>}

\* Non-empty page lists for the operations that take one as an argument.
MixedTexts(n) == [1..n -> {TitleText, PlainText}]

\* Arguments of _llm_determine_order: texts with no title cue under scores that
\* favour the reverse order, and a title on the last page under uniform scores.
OracleInputs(n) ==
    { << [k \in 1..n |-> PlainText], Favouring(Reverse(n), HighScore, 100) >>,
      << [k \in 1..n |-> IF k = n THEN TitleText ELSE PlainText], Uniform(n, FlowDefault) >> }

JsonInts(order) == [k \in 1..Len(order) |-> JsonInt(order[k])]

\* Oracle responses for one document of n non-empty pages.
PipelineResponses(n) ==
    {NoResponse}
    \cup {ResponseText(Object("list", JsonInts(order)), NoArray, ReasoningOracle) :
              order \in SampleOrders(n)}
    \cup {ResponseText(NoObject, Array(JsonInts(Reverse(n))), "")}
    \cup {ResponseText(Object("list", <<JsonInfinity>> \o JsonInts(Range(n - 1))), NoArray, "")}

JsonElements(n) == {JsonInt(v) : v \in -1..n} \cup {JsonWord, JsonInfinity}

\* Oracle responses for _llm_determine_order alone: an object whose order is
\* any list of up to n elements (integers -1..n, a word, an infinity) or any
\* list of n+1 integers, every permutation with a reasoning, a bare array with
\* or without an object that carries no order, and a scalar order.
AnyResponses(n) ==
    {ResponseText(Object("list", order), NoArray, "") :
         order \in Lists(JsonElements(n), 1, n)}
    \cup {ResponseText(Object("list", JsonInts(order)), NoArray, "") :
              order \in Lists(-1..n, n + 1, n + 1)}
    \cup {ResponseText(Object("list", JsonInts(order)), NoArray, ReasoningOracle) :
              order \in Perms(n)}
    \cup {ResponseText(obj, arr, reasoning) :
              obj \in {NoObject, Object("list", <<>>)},
              arr \in {NoArray} \cup {Array(JsonInts(values)) : values \in Lists(0..n, 1, n + 1)},
              reasoning \in {""}}
    \cup {ResponseText(Object("missing", <<>>), arr, ReasoningOracle) :
              arr \in {NoArray, Array(JsonInts(Reverse(n))), Array(JsonInts(Range(n + 1)))}}
    \cup {ResponseText(Object("scalar", <<>>), NoArray, "")}

Outcomes(responses) == {QueryFailed, QueryRaised} \cup {QueryAnswered(r) : r \in responses}

\* -------------------------------------------------------------------- state

VARIABLES
    pc,                      \* where the call is
    pages,                   \* the page list given to the operation (the caller's list)
    transition_scores,       \* Dict[(i, j)] -> score
    result,                  \* what llm_agent.query returned to _llm_determine_order
    llm_order,               \* the CandidateOrder of _llm_determine_order
    final_order,             \* the ordered non-empty page copies of the Reconciler
    final_pages_with_empty,  \* the full sequence after reinsertion
    returned,                \* the dict determine_page_order returns
    oracle_calls,            \* requests sent to the oracle so far
    heuristic_calls,         \* calls of _create_embedding_based_order so far
    embeddings,              \* what embedding_model.encode returned, one vector per page
    embedding_calls,         \* calls of embedding_model.encode so far
    flow,                    \* one call of _calculate_flow_score: its arguments and value
    walk,                    \* the locals of a greedy walk: ordered_indices, remaining
    pdf                      \* one call of PDFAgent.reorder_pdf_pages: arguments and outcome

vars == << pc, pages, transition_scores, result, llm_order, final_order,
           final_pages_with_empty, returned, oracle_calls, heuristic_calls,
           embeddings, embedding_calls, flow, walk, pdf >>

NothingReturned ==
    [ success |-> FALSE, error |-> "", ordered_pages |-> <<>>, page_order |-> <<>>,
      confidence_scores |-> <<>>, reasoning |-> "", original_order |-> <<>>,
      llm_order_indices |-> <<>> ]

NoCandidate == CandidateOrder(<<>>, "")

NoFlow == [text_before |-> "", text_after |-> "", score |-> Absent]

NoWalk ==
    [ kind |-> "none", ordered_indices |-> <<>>, remaining |-> {}, steps |-> 0,
      done |-> FALSE ]

\* total_pages is len(reader.pages) of the input file, written the pages
\* given to writer.add_page, in order.
NoPdf ==
    [ total_pages |-> 0, page_order |-> <<>>, written |-> <<>>, success |-> FALSE,
      error |-> "", page_count |-> 0 ]

\* The variables only the single-function specifications use.
Unused ==
    /\ flow = NoFlow
    /\ walk = NoWalk
    /\ pdf = NoPdf

Fresh ==
    /\ result = NotQueried
    /\ llm_order = NoCandidate
    /\ final_order = <<>>
    /\ final_pages_with_empty = <<>>
    /\ returned = NothingReturned
    /\ oracle_calls = 0
    /\ heuristic_calls = 0
    /\ embeddings = <<>>
    /\ embedding_calls = 0
    /\ Unused

\* determine_page_order is called with a document.
Init ==
    /\ pc = "start"
    /\ pages \in {Document(texts) : texts \in Lists(PipelineTexts, 1, MaxPages)}
    /\ transition_scores = NoScores
    /\ Fresh

\* _llm_determine_order is called with non-empty pages and a score table.
InitLLM ==
    /\ pc = "llm"
    /\ \E n \in 2..MaxN :
          \E input \in OracleInputs(n) :
              /\ pages = Document(input[1])
              /\ transition_scores = input[2]
    /\ Fresh

\* _combine_ordering_results is called with non-empty pages, a candidate and a
\* score table.
InitCombine ==
    /\ pc = "combine"
    /\ \E n \in 2..MaxN :
          /\ pages \in {Document(texts) : texts \in MixedTexts(n)}
          /\ \E input \in (ScoreTables(n) \X SampleOrders(n)) \cup (FewTables(n) \X AnyOrders(n)) :
                /\ transition_scores = input[1]
                /\ llm_order = CandidateOrder(input[2], ReasoningDefault)
    /\ result = NotQueried
    /\ final_order = <<>>
    /\ final_pages_with_empty = <<>>
    /\ returned = NothingReturned
    /\ oracle_calls = 0
    /\ heuristic_calls = 0
    /\ embeddings = <<>>
    /\ embedding_calls = 0
    /\ Unused

\* _reinsert_empty_pages is called with the original sequence (at least 2
\* non-empty pages) and any order of its non-empty pages.
InitReinsert ==
    /\ pc = "reinsert"
    /\ \E n \in 2..MaxReinsertPages :
          /\ pages \in {Document(texts) : texts \in [1..n -> {"", PlainText}]}
          /\ Len(NonEmpty(pages)) >= 2
          /\ final_order \in {CopyAll(NonEmpty(pages), order) :
                                  order \in Perms(Len(NonEmpty(pages)))}
    /\ transition_scores = NoScores
    /\ result = NotQueried
    /\ llm_order = NoCandidate
    /\ final_pages_with_empty = <<>>
    /\ returned = NothingReturned
    /\ oracle_calls = 0
    /\ heuristic_calls = 0
    /\ embeddings = <<>>
    /\ embedding_calls = 0
    /\ Unused

\* ------------------------------------------------------------------ actions

Constant(n, v) == [k \in 1..n |-> v]

\* NotEnoughPages that returns only the non-empty pages.
NotEnoughPagesDroppingEmpty ==
    /\ pc = "start"
    /\ Len(NonEmpty(pages)) < 2
    /\ returned' = [ success |-> TRUE, error |-> "", ordered_pages |-> NonEmpty(pages),
                     page_order |-> PageNumbers(NonEmpty(pages)),
                     confidence_scores |-> Constant(Len(NonEmpty(pages)), ConfidenceShortCircuit),
                     reasoning |-> ReasoningInsufficient, original_order |-> <<>>,
                     llm_order_indices |-> <<>> ]
    /\ pc' = "done"
    /\ UNCHANGED << pages, transition_scores, result, llm_order, final_order,
                    final_pages_with_empty, oracle_calls, heuristic_calls >>
    /\ UNCHANGED << embeddings, embedding_calls, flow, walk, pdf >>

\* determine_page_order, lines 74-86: fewer than 2 non-empty pages.
NotEnoughPages ==
    /\ pc = "start"
    /\ Len(NonEmpty(pages)) < 2
    /\ returned' = [ success |-> TRUE, error |-> "", ordered_pages |-> pages,
                     page_order |-> PageNumbers(pages),
                     confidence_scores |-> Constant(Len(pages), ConfidenceShortCircuit),
                     reasoning |-> ReasoningInsufficient, original_order |-> <<>>,
                     llm_order_indices |-> <<>> ]
    /\ pc' = "done"
    /\ UNCHANGED << pages, transition_scores, result, llm_order, final_order,
                    final_pages_with_empty, oracle_calls, heuristic_calls >>
    /\ UNCHANGED << embeddings, embedding_calls, flow, walk, pdf >>

\* Failure that returns only the non-empty pages.
FailureDroppingEmpty(error) ==
    [ success |-> FALSE, error |-> error, ordered_pages |-> NonEmpty(pages),
      page_order |-> PageNumbers(NonEmpty(pages)),
      confidence_scores |-> Constant(Len(NonEmpty(pages)), ConfidenceFailure),
      reasoning |-> "", original_order |-> <<>>, llm_order_indices |-> <<>> ]

\* The except clause of determine_page_order, lines 177-185.
Failure(error) ==
    [ success |-> FALSE, error |-> error, ordered_pages |-> pages,
      page_order |-> PageNumbers(pages),
      confidence_scores |-> Constant(Len(pages), ConfidenceFailure),
      reasoning |-> "", original_order |-> <<>>, llm_order_indices |-> <<>> ]

\* determine_page_order, lines 88-91 and 177-185: the embedding service raises.
EncodeRaises ==
    /\ pc = "start"
    /\ Len(NonEmpty(pages)) >= 2
    /\ returned' = Failure("embedding service failed")
    /\ pc' = "done"
    /\ UNCHANGED << pages, transition_scores, result, llm_order, final_order,
                    final_pages_with_empty, oracle_calls, heuristic_calls >>
    /\ embedding_calls' = embedding_calls + 1
    /\ UNCHANGED << embeddings, flow, walk, pdf >>

\* determine_page_order, lines 88-101: embeddings, similarity matrix and
\* transition scores of the non-empty pages.
CalculateTransitionScores ==
    /\ pc = "start"
    /\ Len(NonEmpty(pages)) >= 2
    /\ \E encoder \in Encoders :
          /\ embeddings' = Encode(encoder, NonEmpty(pages))
          /\ transition_scores' = calculate_transition_scores(NonEmpty(pages), embeddings')
    /\ embedding_calls' = embedding_calls + 1
    /\ pc' = "llm"
    /\ UNCHANGED << pages, result, llm_order, final_order, final_pages_with_empty,
                    returned, oracle_calls, heuristic_calls, flow, walk, pdf >>

\* A query that is sent again when the oracle did not answer.
QueryOracleRetrying(outcomes) ==
    /\ \/ pc = "llm"
       \/ pc = "parse" /\ result.outcome # "success" /\ oracle_calls < 3
    /\ result' \in outcomes
    /\ oracle_calls' = oracle_calls + 1
    /\ pc' = "parse"
    /\ UNCHANGED << pages, transition_scores, llm_order, final_order,
                    final_pages_with_empty, returned, heuristic_calls >>
    /\ UNCHANGED << embeddings, embedding_calls, flow, walk, pdf >>

\* _llm_determine_order, lines 321-395: the prompt is sent and the oracle
\* answers, reports a failure or raises.
QueryOracle(outcomes) ==
    /\ pc = "llm"
    /\ result' \in outcomes
    /\ oracle_calls' = oracle_calls + 1
    /\ pc' = "parse"
    /\ UNCHANGED << pages, transition_scores, llm_order, final_order,
                    final_pages_with_empty, returned, heuristic_calls >>
    /\ UNCHANGED << embeddings, embedding_calls, flow, walk, pdf >>

\* One call of _create_embedding_based_order when the response is not accepted.
FallbackCalls(outcome, n) ==
    IF outcome.outcome = "success" /\ ~Accepted(outcome.response, n)
       /\ ~Overflows(outcome.response)
    THEN 1 ELSE 0

\* _llm_determine_order, lines 397-479: the CandidateOrder it returns.  An
\* exception leaving it would end determine_page_order in its except clause.
ParseOrder ==
    /\ pc = "parse"
    /\ LET ended == llm_determine_order(NonEmpty(pages), transition_scores, result)
       IN  IF ended.raised
           THEN /\ returned' = Failure("oracle raised")
                /\ pc' = "done"
                /\ UNCHANGED llm_order
           ELSE /\ llm_order' = ended
                /\ pc' = "combine"
                /\ UNCHANGED returned
    /\ heuristic_calls' = heuristic_calls + FallbackCalls(result, Len(NonEmpty(pages)))
    /\ UNCHANGED << pages, transition_scores, result, final_order,
                    final_pages_with_empty, oracle_calls >>
    /\ UNCHANGED << embeddings, embedding_calls, flow, walk, pdf >>

\* One call of _create_embedding_based_order when the candidate is the identity.
SuspicionCalls(order, n) == IF order = Range(n) THEN 1 ELSE 0

\* _combine_ordering_results, lines 481-526.
CombineOrderingResults ==
    /\ pc = "combine"
    /\ final_order' =
           combine_ordering_results(NonEmpty(pages), llm_order.order, transition_scores)
    /\ heuristic_calls' = heuristic_calls + SuspicionCalls(llm_order.order, Len(NonEmpty(pages)))
    /\ result' = NotQueried
    /\ pc' = "reinsert"
    /\ UNCHANGED << pages, transition_scores, llm_order, final_pages_with_empty,
                    returned, oracle_calls >>
    /\ UNCHANGED << embeddings, embedding_calls, flow, walk, pdf >>

\* _reinsert_empty_pages, lines 658-729.
ReinsertEmptyPages ==
    /\ pc = "reinsert"
    /\ final_pages_with_empty' = reinsert_empty_pages(final_order, Empty(pages), pages)
    /\ pc' = "finish"
    /\ UNCHANGED << pages, transition_scores, result, llm_order, final_order,
                    returned, oracle_calls, heuristic_calls >>
    /\ UNCHANGED << embeddings, embedding_calls, flow, walk, pdf >>

\* Lines 137-139: page['original_index'] = i for every page without one.
Annotated(ordered_pages) ==
    [k \in 1..Len(ordered_pages) |->
        IF ordered_pages[k].original_index = Absent
        THEN [ordered_pages[k] EXCEPT !.original_index = k - 1]
        ELSE ordered_pages[k]]

\* The caller's list after lines 137-139: the empty pages of the result are the
\* caller's own records, not copies.
AfterAnnotation(all_pages, annotated) ==
    [k \in 1..Len(all_pages) |->
        IF all_pages[k].is_empty
        THEN LET at == {j \in 1..Len(annotated) :
                            annotated[j].is_empty
                            /\ annotated[j].page_number = all_pages[k].page_number}
             IN  IF at = {} THEN all_pages[k] ELSE annotated[Min(at)]
        ELSE all_pages[k]]

\* determine_page_order, lines 136-175: annotation, confidence and the result.
ReturnOrder ==
    /\ pc = "finish"
    /\ LET annotated == Annotated(final_pages_with_empty)
       IN  /\ pages' = AfterAnnotation(pages, annotated)
           /\ final_pages_with_empty' = annotated
           /\ returned' =
                  [ success |-> TRUE, error |-> "", ordered_pages |-> annotated,
                    page_order |-> PageNumbers(annotated),
                    confidence_scores |->
                        calculate_confidence_scores(annotated, transition_scores),
                    reasoning |-> llm_order.reasoning,
                    original_order |-> PageNumbers(pages),
                    llm_order_indices |-> llm_order.order ]
    /\ pc' = "done"
    /\ UNCHANGED << transition_scores, result, llm_order, final_order, oracle_calls,
                    heuristic_calls >>
    /\ UNCHANGED << embeddings, embedding_calls, flow, walk, pdf >>

Next ==
    \/ NotEnoughPages
    \/ EncodeRaises
    \/ CalculateTransitionScores
    \/ QueryOracle(Outcomes(PipelineResponses(Len(NonEmpty(pages)))))
    \/ ParseOrder
    \/ CombineOrderingResults
    \/ ReinsertEmptyPages
    \/ ReturnOrder

Spec == Init /\ [][Next]_vars

NextLLM ==
    \/ QueryOracle(Outcomes(AnyResponses(Len(NonEmpty(pages)))))
    \/ ParseOrder

SpecLLM == InitLLM /\ [][NextLLM]_vars

NextCombine == CombineOrderingResults

SpecCombine == InitCombine /\ [][NextCombine]_vars

NextReinsert == ReinsertEmptyPages

SpecReinsert == InitReinsert /\ [][NextReinsert]_vars

\* ---------------------------------------------------------- the flow scorer

\* _calculate_flow_score is called with two texts.
InitFlow ==
    /\ pc = "flow"
    /\ flow \in [text_before : SampleTexts, text_after : SampleTexts, score : {Absent}]
    /\ pages = <<>>
    /\ transition_scores = NoScores
    /\ walk = NoWalk
    /\ pdf = NoPdf
    /\ result = NotQueried
    /\ llm_order = NoCandidate
    /\ final_order = <<>>
    /\ final_pages_with_empty = <<>>
    /\ returned = NothingReturned
    /\ oracle_calls = 0
    /\ heuristic_calls = 0
    /\ embeddings = <<>>
    /\ embedding_calls = 0

\* _calculate_flow_score, lines 218-313.
CalculateFlowScore ==
    /\ pc = "flow"
    /\ flow' = [flow EXCEPT !.score = calculate_flow_score(flow.text_before, flow.text_after)]
    /\ pc' = "flowed"
    /\ UNCHANGED << pages, transition_scores, result, llm_order, final_order,
                    final_pages_with_empty, returned, oracle_calls, heuristic_calls,
                    embeddings, embedding_calls, walk, pdf >>

NextFlow == CalculateFlowScore

SpecFlow == InitFlow /\ [][NextFlow]_vars

\* ------------------------------------------------ the transition builder

TransitionTexts == {ArticleOneText, ArticleTwoText, ProblemText, LongText}

\* _calculate_transition_scores is called with non-empty pages and one
\* embedding vector per page.
InitTransitions ==
    /\ pc = "scores"
    /\ \E n \in 2..MaxN :
          /\ pages \in {Document(texts) : texts \in [1..n -> TransitionTexts]}
          /\ embeddings \in [1..n -> Vectors]
    /\ transition_scores = NoScores
    /\ result = NotQueried
    /\ llm_order = NoCandidate
    /\ final_order = <<>>
    /\ final_pages_with_empty = <<>>
    /\ returned = NothingReturned
    /\ oracle_calls = 0
    /\ heuristic_calls = 0
    /\ embedding_calls = 0
    /\ Unused

\* _calculate_transition_scores, lines 198-216
TransitionScoresReturn ==
    /\ pc = "scores"
    /\ transition_scores' = calculate_transition_scores(pages, embeddings)
    /\ pc' = "scored"
    /\ UNCHANGED << pages, result, llm_order, final_order, final_pages_with_empty,
                    returned, oracle_calls, heuristic_calls, embeddings,
                    embedding_calls, flow, walk, pdf >>

SpecTransitions == InitTransitions /\ [][TransitionScoresReturn]_vars

\* ------------------------------------------------------ the PDF reorderer

\* reorder_pdf_pages is called with an existing PDF of total_pages pages and a
\* page_order of 1-based page numbers.
InitReorder ==
    /\ pc = "reorder"
    /\ \E total_pages \in 1..MaxPdfPages :
          \E page_order \in Lists(0..(total_pages + 1), 0, total_pages + 1) :
              pdf = [NoPdf EXCEPT !.total_pages = total_pages, !.page_order = page_order]
    /\ pages = <<>>
    /\ transition_scores = NoScores
    /\ result = NotQueried
    /\ llm_order = NoCandidate
    /\ final_order = <<>>
    /\ final_pages_with_empty = <<>>
    /\ returned = NothingReturned
    /\ oracle_calls = 0
    /\ heuristic_calls = 0
    /\ embeddings = <<>>
    /\ embedding_calls = 0
    /\ flow = NoFlow
    /\ walk = NoWalk

\* reorder_pdf_pages, lines 450-547: the three validations, then one add_page
\* per entry of page_order.
ReorderPdfPages ==
    /\ pc = "reorder"
    /\ pdf' =
          IF pdf.page_order = <<>>
          THEN [pdf EXCEPT !.error = "Page order is empty"]
          ELSE IF ~\A k \in 1..Len(pdf.page_order) :
                       1 <= pdf.page_order[k] /\ pdf.page_order[k] <= pdf.total_pages
          THEN [pdf EXCEPT !.error = "Invalid page numbers in order"]
          ELSE IF Cardinality(Elems(pdf.page_order)) # pdf.total_pages
          THEN [pdf EXCEPT !.error = "Page order must include all pages exactly once"]
          ELSE [pdf EXCEPT !.success = TRUE, !.written = pdf.page_order,
                           !.page_count = pdf.total_pages]
    /\ pc' = "reordered"
    /\ UNCHANGED << pages, transition_scores, result, llm_order, final_order,
                    final_pages_with_empty, returned, oracle_calls, heuristic_calls,
                    embeddings, embedding_calls, flow, walk >>

SpecReorder == InitReorder /\ [][ReorderPdfPages]_vars

\* ------------------------------------------------------- the greedy walks

\* _create_path_from_transitions or _create_embedding_based_order is called
\* with the non-empty pages (at least 2) and a score table (also one with no
\* entries).
InitWalk ==
    /\ pc = "walk"
    /\ \/ \E n \in 2..MaxN :
             /\ pages \in {Document(texts) : texts \in MixedTexts(n)}
             /\ transition_scores \in ScoreTables(n)
       \/ \E n \in 2..MaxWalkN :
             /\ pages = Document([k \in 1..n |-> PlainText])
             /\ transition_scores \in SparseTables(n)
    /\ walk \in {[NoWalk EXCEPT !.kind = kind] : kind \in {"path", "heuristic"}}
    /\ flow = NoFlow
    /\ pdf = NoPdf
    /\ result = NotQueried
    /\ llm_order = NoCandidate
    /\ final_order = <<>>
    /\ final_pages_with_empty = <<>>
    /\ returned = NothingReturned
    /\ oracle_calls = 0
    /\ heuristic_calls = 0
    /\ embeddings = <<>>
    /\ embedding_calls = 0

\* What a step of a walk leaves alone.
WalkFrame ==
    UNCHANGED << pages, transition_scores, result, llm_order, final_order,
                 final_pages_with_empty, returned, oracle_calls, heuristic_calls,
                 embeddings, embedding_calls, flow, pdf >>

\* The locals after the start page is chosen: one step.
Started(start_page) ==
    [ walk EXCEPT !.ordered_indices = << start_page >>,
                  !.remaining = (0..(Len(pages) - 1)) \ {start_page},
                  !.steps = 1 ]

\* One iteration that appends best_next.
Followed(best_next) ==
    [ walk EXCEPT !.ordered_indices = Append(@, best_next),
                  !.remaining = @ \ {best_next},
                  !.steps = @ + 1 ]

\* One iteration that takes the else branch: extend(sorted(remaining)); break.
Broken ==
    [ walk EXCEPT !.ordered_indices = @ \o Sorted(walk.remaining),
                  !.remaining = {},
                  !.steps = @ + 1,
                  !.done = TRUE ]

\* _create_path_from_transitions, lines 539-554.
PathStartStep ==
    /\ pc = "walk" /\ walk.kind = "path" /\ walk.steps = 0 /\ ~walk.done
    /\ walk' = Started(PathStart(pages, transition_scores))
    /\ UNCHANGED pc
    /\ WalkFrame

\* _create_path_from_transitions, lines 556-573: one iteration of the loop.
PathLoopStep ==
    /\ pc = "walk" /\ walk.kind = "path" /\ walk.steps > 0 /\ ~walk.done
    /\ walk.remaining # {}
    /\ LET best == BestNext(transition_scores, Last(walk.ordered_indices), walk.remaining)
       IN  walk' = IF best.best_next # Absent THEN Followed(best.best_next) ELSE Broken
    /\ UNCHANGED pc
    /\ WalkFrame

\* _create_embedding_based_order, lines 590-634: the early return for at most
\* one page, else the choice of the start page.
EmbeddingStartStep ==
    /\ pc = "walk" /\ walk.kind = "heuristic" /\ walk.steps = 0 /\ ~walk.done
    /\ walk' = IF Len(pages) <= 1
               THEN [walk EXCEPT !.ordered_indices = Range(Len(pages)), !.done = TRUE]
               ELSE Started(StartPage(pages))
    /\ UNCHANGED pc
    /\ WalkFrame

\* One iteration of the heuristic walk that follows every positive best score.
EmbeddingLoopStepFollowingAny ==
    /\ pc = "walk" /\ walk.kind = "heuristic" /\ walk.steps > 0 /\ ~walk.done
    /\ walk.remaining # {}
    /\ LET best == BestNext(transition_scores, Last(walk.ordered_indices), walk.remaining)
       IN  walk' = IF best.best_score > 0
                   THEN [ walk EXCEPT !.ordered_indices = Append(@, best.best_next),
                                      !.remaining = @ \ {best.best_next},
                                      !.steps = @ + 1 ]
                   ELSE [ walk EXCEPT !.ordered_indices = @ \o Sorted(walk.remaining),
                                      !.remaining = {},
                                      !.steps = @ + 1,
                                      !.done = TRUE ]
    /\ UNCHANGED << pc, pages, transition_scores, result, llm_order, final_order,
                    final_pages_with_empty, returned, oracle_calls, heuristic_calls,
                    embeddings, embedding_calls, flow, pdf >>

\* EmbeddingLoopStep whose else branch breaks without adding the remaining pages.
EmbeddingLoopStepDroppingRest ==
    /\ pc = "walk" /\ walk.kind = "heuristic" /\ walk.steps > 0 /\ ~walk.done
    /\ walk.remaining # {}
    /\ LET best == BestNext(transition_scores, Last(walk.ordered_indices), walk.remaining)
       IN  walk' = IF best.best_next # Absent /\ best.best_score > MinFollowScore
                   THEN Followed(best.best_next)
                   ELSE [walk EXCEPT !.remaining = {}, !.steps = @ + 1, !.done = TRUE]
    /\ UNCHANGED pc
    /\ WalkFrame

\* _create_embedding_based_order, lines 637-654: one iteration of the loop.
EmbeddingLoopStep ==
    /\ pc = "walk" /\ walk.kind = "heuristic" /\ walk.steps > 0 /\ ~walk.done
    /\ walk.remaining # {}
    /\ LET best == BestNext(transition_scores, Last(walk.ordered_indices), walk.remaining)
       IN  walk' = IF best.best_next # Absent /\ best.best_score > MinFollowScore
                   THEN Followed(best.best_next)
                   ELSE Broken
    /\ UNCHANGED pc
    /\ WalkFrame

\* The loop condition fails (remaining is empty), or the loop was left by break
\* or the function by its early return: the walk returns ordered_indices.
WalkReturn ==
    /\ pc = "walk"
    /\ walk.done \/ (walk.steps > 0 /\ walk.remaining = {})
    /\ walk' = [walk EXCEPT !.done = TRUE]
    /\ pc' = "walked"
    /\ WalkFrame

NextWalk ==
    \/ PathStartStep
    \/ PathLoopStep
    \/ EmbeddingStartStep
    \/ EmbeddingLoopStep
    \/ WalkReturn

\* The walks are sequential code: a step that can be taken is taken.
SpecWalk == InitWalk /\ [][NextWalk]_vars /\ WF_vars(NextWalk)

\* ------------------------------------------------------------------- claims

N == Len(NonEmpty(pages))

OriginalIndices(ordered_pages) ==
    [k \in 1..Len(ordered_pages) |-> ordered_pages[k].original_index]

Occurrences(order, v) == Cardinality({k \in 1..Len(order) : order[k] = v})

\* C1: whatever the candidate order (repeats, out-of-range values, wrong
\* length, empty) and the score table, the original_index values of the pages
\* _combine_ordering_results returns are a permutation of 0..N-1.
C1_CombinePermutation ==
    pc = "reinsert" =>
        /\ Len(final_order) = N
        /\ \A v \in 0..(N - 1) : Occurrences(OriginalIndices(final_order), v) = 1

C1_Witness ==
    /\ pc = "reinsert"
    /\ N = 3
    /\ llm_order.order = << 0, 0, 3, -1 >>
    /\ Elems(OriginalIndices(final_order)) = {0, 1, 2}

\* C2: determine_page_order returns as many pages as it was given, and
\* page_order holds every input page number exactly once.
C2_FullCoverage ==
    pc = "done" =>
        /\ Len(returned.ordered_pages) = Len(pages)
        /\ Len(returned.page_order) = Len(pages)
        /\ \A k \in 1..Len(pages) : Occurrences(returned.page_order, pages[k].page_number) = 1

C2_Witness ==
    /\ pc = "done"
    /\ returned.success
    /\ Len(pages) = 4
    /\ Len(Empty(pages)) = 2
    /\ returned.page_order # PageNumbers(pages)

\* C3: the output of _reinsert_empty_pages without its empty pages is the
\* reconciled non-empty sequence, in the same order.
C3_NonEmptyOrderKept ==
    pc = "finish" => NonEmpty(final_pages_with_empty) = final_order

C3_Witness ==
    /\ pc = "finish"
    /\ Len(Empty(pages)) >= 2
    /\ Len(final_order) >= 2
    /\ final_order # CopyAll(NonEmpty(pages), Range(N))
    /\ NonEmpty(final_pages_with_empty) = final_order

\* The page number of the first page of the reordered sequence whose original
\* page number exceeds that of the empty page; 0 when there is none.
TargetOf(empty_page, ordered_pages) ==
    LET later == {i \in 1..Len(ordered_pages) :
                      ordered_pages[i].page_number > empty_page.page_number}
    IN  IF later = {} THEN 0 ELSE ordered_pages[Min(later)].page_number

\* The page number of the first non-empty page after place k; 0 when there is none.
NextNonEmpty(output, k) ==
    LET after == {j \in (k + 1)..Len(output) : ~output[j].is_empty}
    IN  IF after = {} THEN 0 ELSE output[Min(after)].page_number

EmptyPlaces(output) == {k \in 1..Len(output) : output[k].is_empty}

\* C4 as stated: every empty page is immediately before its target page, and is
\* the last page of the output when it has no target.
C4_ImmediatelyBefore ==
    pc = "finish" =>
        \A k \in EmptyPlaces(final_pages_with_empty) :
            LET target == TargetOf(final_pages_with_empty[k], final_order)
            IN  IF target = 0 THEN k = Len(final_pages_with_empty)
                ELSE /\ k < Len(final_pages_with_empty)
                     /\ final_pages_with_empty[k + 1].page_number = target

\* C4 (amended): every empty page is placed before its target page with nothing
\* but empty pages between them, and after every non-empty page when it has no
\* target.
C4_BeforeTarget ==
    pc = "finish" =>
        \A k \in EmptyPlaces(final_pages_with_empty) :
            NextNonEmpty(final_pages_with_empty, k)
                = TargetOf(final_pages_with_empty[k], final_order)

C4_Witness ==
    /\ pc = "finish"
    /\ Len(pages) = 5
    /\ PageNumbers(Empty(pages)) = << 2, 4 >>
    /\ PageNumbers(final_order) = << 5, 1, 3 >>
    /\ PageNumbers(final_pages_with_empty) = << 2, 4, 5, 1, 3 >>

\* C5: the empty pages come out in the relative order they had in the input.
C5_EmptyOrderKept ==
    pc = "finish" => Empty(final_pages_with_empty) = Empty(pages)

C5_Witness ==
    /\ pc = "finish"
    /\ PageNumbers(pages) = << 1, 2, 3, 4 >>
    /\ PageNumbers(Empty(pages)) = << 1, 2 >>
    /\ PageNumbers(final_pages_with_empty) = << 1, 2, 4, 3 >>

\* The order array the response carries: that of its JSON object if it has one
\* with entries, else its bare numeric array.
CarriedOrder(response) ==
    IF response.obj.kind = "dict" /\ response.obj.order_kind = "list"
       /\ response.obj.order # <<>>
    THEN response.obj.order
    ELSE response.arr.values

\* C6: for any oracle response the order _llm_determine_order returns is a
\* permutation of 0..N-1: it is the order the response carries only if that is
\* a valid permutation; otherwise it is the heuristic order, with the reasoning
\* that the response could not be parsed.
C6_OracleOrderValid ==
    (pc = "combine" /\ result.outcome = "success") =>
        /\ \A v \in 0..(N - 1) : Occurrences(llm_order.order, v) = 1
        /\ Len(llm_order.order) = N
        /\ \/ /\ llm_order.reasoning # ReasoningNotParseable
              /\ CarriedOrder(result.response) = JsonInts(llm_order.order)
           \/ /\ llm_order.reasoning = ReasoningNotParseable
              /\ llm_order.order = create_embedding_based_order(NonEmpty(pages), transition_scores)
              /\ \/ CarriedOrder(result.response) = <<>>
                 \/ result.response.obj.order_kind = "scalar"
                 \/ ~Convertible(CarriedOrder(result.response))
                 \/ ~IsPermutation(ToInts(CarriedOrder(result.response)), N)

\* C7: when the oracle call reports a failure or raises, _llm_determine_order
\* raises nothing and returns the identity order with a reasoning that notes
\* the failure.
C7_OracleFailureIdentity ==
    (pc \in {"combine", "done"} /\ result.outcome \in {"failed", "raised"}) =>
        /\ pc = "combine"
        /\ ~llm_order.raised
        /\ llm_order.order = Range(N)
        /\ llm_order.reasoning
             = (IF result.outcome = "failed" THEN ReasoningQueryFailed ELSE ReasoningError)

C7_Witness ==
    /\ pc = "combine"
    /\ result.outcome = "raised"
    /\ N = 3
    /\ llm_order.order = << 0, 1, 2 >>
    /\ llm_order.reasoning = ReasoningError

\* C8: with at least 2 non-empty pages and a working embedding service (so the
\* oracle was asked), determine_page_order returns success = True whatever the
\* oracle did.
C8_OracleNeverFailsPipeline ==
    (pc = "done" /\ oracle_calls > 0) => returned.success

C8_Witness ==
    /\ pc = "done"
    /\ oracle_calls > 0
    /\ returned.success
    /\ returned.reasoning = ReasoningError

\* C9: when the candidate is the identity, _combine_ordering_results runs the
\* heuristic exactly once and never asks the oracle; the final order is the
\* heuristic order if that is not the identity, the identity otherwise.
C9_IdentitySuspicionOnce ==
    (pc = "reinsert" /\ llm_order.order = Range(N)) =>
        LET embedding_order == create_embedding_based_order(NonEmpty(pages), transition_scores)
        IN  /\ heuristic_calls = 1
            /\ oracle_calls = 0
            /\ embedding_order # Range(N) => OriginalIndices(final_order) = embedding_order
            /\ embedding_order = Range(N) => OriginalIndices(final_order) = Range(N)

C9_Witness ==
    /\ pc = "reinsert"
    /\ N = 3
    /\ llm_order.order = << 0, 1, 2 >>
    /\ heuristic_calls = 1
    /\ OriginalIndices(final_order) = << 2, 0, 1 >>

\* The scores favour an order: from each of its pages the score to the page
\* that follows it in the order is higher than to any other page not yet placed.
Favours(scores, order) ==
    \A k \in 1..(Len(order) - 1) :
        \A j \in (k + 2)..Len(order) :
            Get(scores, order[k], order[k + 1], MissingScore)
                > Get(scores, order[k], order[j], MissingScore)

IdentityFor201 ==
    /\ pc = "reinsert"
    /\ N = 3
    /\ llm_order.order = << 0, 1, 2 >>
    /\ Favours(transition_scores, << 2, 0, 1 >>)

\* C10 as stated: the oracle returns [0,1,2] for 3 pages whose scores favour
\* [2,0,1], and the final order differs from [0,1,2].
C10_AlwaysReordered ==
    IdentityFor201 => OriginalIndices(final_order) # << 0, 1, 2 >>

\* Page 0 has a higher start score than every other page.
FirstPageBestStart ==
    \A k \in 2..N : StartScore(NonEmpty(pages)[1].text) > StartScore(NonEmpty(pages)[k].text)

\* C10 (amended): the oracle returns [0,1,2] for 3 pages whose scores favour
\* [2,0,1]; unless page 0 has a strictly higher start score than both other
\* pages, the final order differs from [0,1,2].
C10_ReorderedUnlessFirstBest ==
    (IdentityFor201 /\ ~FirstPageBestStart) => OriginalIndices(final_order) # << 0, 1, 2 >>

C10_Witness ==
    /\ IdentityFor201
    /\ ~FirstPageBestStart
    /\ OriginalIndices(final_order) = << 2, 0, 1 >>

\* C11: a candidate that is a valid permutation of 0..N-1 other than the
\* identity is the final index order, element for element, whatever the scores.
C11_ValidOrderAdopted ==
    (pc = "reinsert" /\ IsPermutation(llm_order.order, N) /\ llm_order.order # Range(N)) =>
        OriginalIndices(final_order) = llm_order.order

C11_Witness ==
    /\ pc = "reinsert"
    /\ N = 3
    /\ llm_order.order = << 1, 2, 0 >>
    /\ PathIndices(NonEmpty(pages), transition_scores) # << 1, 2, 0 >>
    /\ create_embedding_based_order(NonEmpty(pages), transition_scores) # << 1, 2, 0 >>
    /\ OriginalIndices(final_order) = << 1, 2, 0 >>

\* The candidate's in-range indices do not cover 0..N-1.
Incomplete(order) == \E v \in 0..(N - 1) : Occurrences(order, v) = 0

\* C12: a candidate that does not cover 0..N-1 once its repeated indices are
\* dropped is discarded: the result is exactly the greedy transition path,
\* which is a permutation of 0..N-1.
C12_IncompleteOrderDiscarded ==
    (pc = "reinsert" /\ Incomplete(llm_order.order)) =>
        /\ OriginalIndices(final_order) = PathIndices(NonEmpty(pages), transition_scores)
        /\ IsPermutation(OriginalIndices(final_order), N)

C12_Witness ==
    /\ pc = "reinsert"
    /\ N = 3
    /\ llm_order.order = << 0, 0, 1 >>
    /\ OriginalIndices(final_order) = << 1, 0, 2 >>

C14_ShortCircuit ==
    (pc = "done" /\ N < 2) =>
        /\ returned.success
        /\ returned.ordered_pages = pages
        /\ returned.page_order = PageNumbers(pages)
        /\ Len(returned.confidence_scores) = Len(pages)
        /\ \A k \in 1..Len(pages) : returned.confidence_scores[k] = 1000
        /\ embedding_calls = 0
        /\ oracle_calls = 0

C14_Witness ==
    /\ pc = "done"
    /\ Len(pages) = 3
    /\ N = 1
    /\ pages[2].text = TitleText
    /\ returned.success
    /\ returned.page_order = << 1, 2, 3 >>

\* C15: when an exception is raised inside determine_page_order (here by the
\* embedding service) the call returns success = False with an error string,
\* and ordered_pages and page_order are the whole input in input order.
C15_FailureReturnsInput ==
    (pc = "done" /\ ~returned.success) =>
        /\ returned.error # ""
        /\ returned.ordered_pages = pages
        /\ returned.page_order = PageNumbers(pages)
        /\ Len(returned.ordered_pages) = Len(pages)

C15_Witness ==
    /\ pc = "done"
    /\ ~returned.success
    /\ embedding_calls = 1
    /\ Len(pages) = 4
    /\ Len(Empty(pages)) = 2
    /\ returned.page_order = << 1, 2, 3, 4 >>

\* The clause rule as stated: the last enumerator of text_before and the first
\* enumerator of text_after are consecutive, both Roman (0.75) or both Arabic
\* (0.7).
ConsecutiveClauses(before, after) ==
    LET clause_before == TextFacts(before).clause
        clause_after == TextFacts(after).clause
    IN  IF clause_before = <<>> \/ clause_after = <<>> THEN Absent
        ELSE LET last == Last(clause_before)
                 first == Head(clause_after)
             IN  IF /\ InRoman(last.roman, ClauseNumerals)
                    /\ InRoman(first.roman, ClauseNumerals)
                    /\ RomanValue(first.roman, ClauseNumerals)
                         = RomanValue(last.roman, ClauseNumerals) + 1
                 THEN 750
                 ELSE IF last.roman = "" /\ first.roman = "" /\ first.arabic = last.arabic + 1
                 THEN 700
                 ELSE Absent

\* C16: for two non-empty texts _calculate_flow_score returns the value of the
\* first rule that matches: heading pair 0.8, consecutive Roman headings 0.7,
\* consecutive clause enumerators 0.75 (Roman) or 0.7 (Arabic), consecutive
\* bare integers 0.6, and 0.3 when none matches.
C16_FirstMatchingRule ==
    (pc = "flowed" /\ flow.text_before # "" /\ flow.text_after # "") =>
        flow.score =
            (IF HeadingPairRule(flow.text_before, flow.text_after) THEN 800
             ELSE IF RomanHeadingRule(flow.text_before, flow.text_after) THEN 700
             ELSE IF ConsecutiveClauses(flow.text_before, flow.text_after) # Absent
                  THEN ConsecutiveClauses(flow.text_before, flow.text_after)
             ELSE IF NumberRule(flow.text_before, flow.text_after) THEN 600
             ELSE 300)

\* No rule of the flow scorer matches the two texts.
NoRuleMatches(before, after) ==
    /\ ~HeadingPairRule(before, after)
    /\ ~RomanHeadingRule(before, after)
    /\ ClauseRule(before, after) = Absent
    /\ ~NumberRule(before, after)

\* C17 as stated: the flow score is never zero, and is 0.3 whenever no rule
\* matches.
C17_NeverZero ==
    pc = "flowed" =>
        /\ flow.score # 0
        /\ NoRuleMatches(flow.text_before, flow.text_after) => flow.score = 300

\* C17 (amended): the flow score is zero exactly when one of the texts is
\* empty; for two non-empty texts that no rule matches it is 0.3.
C17_ZeroOnlyForEmptyText ==
    pc = "flowed" =>
        /\ flow.score = 0 <=> (flow.text_before = "" \/ flow.text_after = "")
        /\ ( /\ flow.text_before # "" /\ flow.text_after # ""
             /\ NoRuleMatches(flow.text_before, flow.text_after) ) => flow.score = 300

C17_Witness ==
    /\ pc = "flowed"
    /\ flow.text_before = PlainText
    /\ flow.text_after = TitleText
    /\ flow.score = 300

\* C18: for N non-empty pages _calculate_transition_scores produces an entry
\* for every ordered pair (i, j) with i # j and none for i = j, and each entry
\* equals 0.6 * similarity[i][j] + 0.4 * FlowScorer(text_i[:500], text_j[:500]).
C18_EveryOrderedPairScored ==
    pc = "scored" =>
        /\ DOMAIN transition_scores
             = {pair \in (0..(Len(pages) - 1)) \X (0..(Len(pages) - 1)) : pair[1] # pair[2]}
        /\ \A i, j \in 0..(Len(pages) - 1) :
               i # j =>
                 transition_scores[<<i, j>>] * 10
                   = 6 * Similarity(embeddings, i, j)
                     + 4 * calculate_flow_score(Prefix(pages[i + 1].text, 500),
                                                Prefix(pages[j + 1].text, 500))

\* A heading beyond the first 500 characters of page 0 does not count: the
\* flow into the problem statement is the default, not the heading pair's.
C18_Witness ==
    /\ pc = "scored"
    /\ Len(pages) = 3
    /\ pages[1].text = LongText
    /\ pages[2].text = ProblemText
    /\ embeddings[1] = <<3, 4>>
    /\ embeddings[2] = <<5, 0>>
    /\ transition_scores[<<0, 1>>] = 480
    /\ <<0, 0>> \notin DOMAIN transition_scores

\* C19: every transition score produced by the Transition Matrix Builder lies
\* in [0, 1], for every cosine-similarity matrix the embedding service can
\* supply and every pair of page texts.
C19_ScoresInUnitInterval ==
    pc = "scored" =>
        \A pair \in DOMAIN transition_scores :
            0 <= transition_scores[pair] /\ transition_scores[pair] <= 1000

\* The index of a page in the non-empty list given to the ordering engine.
NonEmptyIndex(page) ==
    CHOOSE i \in 0..(N - 1) : NonEmpty(pages)[i + 1].page_number = page.page_number

\* C20: _calculate_confidence_scores returns one value per position of the
\* final order: 0.5 for every empty page, 0.7 for a non-empty page in the
\* first position, and min(1.0, transition score from the previous page to
\* this one + 0.2) for a non-empty page that follows a non-empty page, the
\* transition being looked up by the two pages' indices in the non-empty list.
C20_ConfidencePerPosition ==
    (pc = "done" /\ returned.success /\ N >= 2) =>
        LET ordered_pages == returned.ordered_pages
            confidence_scores == returned.confidence_scores
        IN  /\ Len(confidence_scores) = Len(ordered_pages)
            /\ \A k \in 1..Len(ordered_pages) :
                   LET page == ordered_pages[k]
                   IN  /\ page.is_empty => confidence_scores[k] = 500
                       /\ (k = 1 /\ ~page.is_empty) => confidence_scores[k] = 700
                       /\ (k > 1 /\ ~page.is_empty /\ ~ordered_pages[k - 1].is_empty) =>
                              LET prev == NonEmptyIndex(ordered_pages[k - 1])
                                  curr == NonEmptyIndex(page)
                                  boosted == transition_scores[<<prev, curr>>] + 200
                              IN  /\ <<prev, curr>> \in DOMAIN transition_scores
                                  /\ confidence_scores[k]
                                       = IF boosted > 1000 THEN 1000 ELSE boosted

\* An order that moves pages, with an empty page, a capped confidence and an
\* uncapped one.
C20_Witness ==
    /\ pc = "done"
    /\ returned.success
    /\ Len(returned.ordered_pages) = 4
    /\ \E k \in 1..4 : returned.ordered_pages[k].is_empty
    /\ ~returned.ordered_pages[1].is_empty
    /\ \E k \in 2..4 :
          /\ ~returned.ordered_pages[k].is_empty
          /\ ~returned.ordered_pages[k - 1].is_empty
          /\ returned.ordered_pages[k].original_index
               < returned.ordered_pages[k - 1].original_index
          /\ returned.confidence_scores[k] = 1000
    /\ \E k \in 2..4 :
          /\ ~returned.ordered_pages[k].is_empty
          /\ ~returned.ordered_pages[k - 1].is_empty
          /\ returned.confidence_scores[k] < 1000

\* C21: a non-empty page at a position after the first that is adjacent to an
\* empty page on either side (the page before it or the page after it in the
\* final order is empty) gets confidence exactly 0.6.
C21_BoundaryConfidence ==
    (pc = "done" /\ returned.success /\ N >= 2) =>
        LET ordered_pages == returned.ordered_pages
        IN  \A k \in 2..Len(ordered_pages) :
                ( /\ ~ordered_pages[k].is_empty
                  /\ \/ ordered_pages[k - 1].is_empty
                     \/ (k < Len(ordered_pages) /\ ordered_pages[k + 1].is_empty) )
                => returned.confidence_scores[k] = 600

\* C22: determine_page_order never mutates an input page record in place:
\* every record of the input list keeps exactly the fields and values it had
\* before the call (in particular it never gains an original_index).
C22_InputNeverMutated ==
    \A k \in 1..Len(pages) :
        pages[k] = Page(k, pages[k].text = "", pages[k].text)

\* C23: during one determine_page_order call the oracle receives at most one
\* request and is never asked again, whatever it returned; once it has been
\* asked, every later stage runs with exactly that one request made.
C23_OneOracleRequest ==
    /\ oracle_calls <= 1
    /\ pc \in {"parse", "combine", "reinsert", "finish"} => oracle_calls = 1
    /\ (pc = "done" /\ returned.success /\ N >= 2) => oracle_calls = 1

\* The oracle reported a failure, the heuristic reordered the pages, and the
\* call returned after the single request.
C23_Witness ==
    /\ pc = "done"
    /\ returned.success
    /\ returned.reasoning = ReasoningQueryFailed
    /\ oracle_calls = 1
    /\ heuristic_calls >= 1
    /\ returned.page_order # returned.original_order

\* The scenario of C24: pages 1..3 are ARTICLE II, the title page and
\* ARTICLE I, and the oracle reported a failure or raised.
TitleBetweenArticles ==
    /\ pc = "done"
    /\ returned.success
    /\ [k \in 1..Len(pages) |-> pages[k].text]
         = << ArticleTwoText, TitleText, ArticleOneText >>
    /\ returned.reasoning \in {ReasoningQueryFailed, ReasoningError}

\* C24 as stated: in the scenario determine_page_order returns
\* page_order = [2, 3, 1].
C24_TitleThenArticles ==
    TitleBetweenArticles => returned.page_order = << 2, 3, 1 >>

\* C24 (amended): in the scenario the title page 2 comes first; page_order is
\* [2, 3, 1] when the transition score from the title to ARTICLE I exceeds both
\* 0.3 and the score from the title to ARTICLE II, and [2, 1, 3] otherwise.
C24_TitleThenBestTransition ==
    TitleBetweenArticles =>
        returned.page_order
          = (IF /\ transition_scores[<<1, 2>>] > 300
                /\ transition_scores[<<1, 2>>] > transition_scores[<<1, 0>>]
             THEN << 2, 3, 1 >> ELSE << 2, 1, 3 >>)

C24_Witness ==
    /\ TitleBetweenArticles
    /\ transition_scores[<<1, 2>>] = 480
    /\ transition_scores[<<1, 0>>] = 120
    /\ transition_scores[<<2, 0>>] = 760
    /\ returned.page_order = << 2, 3, 1 >>

\* score(i, j): the recorded transition score, 0 when none is recorded.
ScoreOf(i, j) == Get(transition_scores, i, j, 0)

TotalOutgoing(i) == SumOutgoing(transition_scores, i, N - 1)

Ascending(s) == \A k \in 1..(Len(s) - 1) : s[k] < s[k + 1]

\* C25: _create_path_from_transitions starts at an index whose total outgoing
\* transition score is maximal (the lowest such index on ties), and every
\* later element of the path is an unvisited index whose score from the
\* current index is the highest among all unvisited indices at that step.
C25_GreedyPath ==
    (pc = "walked" /\ walk.kind = "path") =>
        LET path == walk.ordered_indices
        IN  /\ \A i \in 0..(N - 1) :
                   /\ TotalOutgoing(i) <= TotalOutgoing(path[1])
                   /\ i < path[1] => TotalOutgoing(i) < TotalOutgoing(path[1])
            /\ \A k \in 2..Len(path) :
                   \A j \in k..Len(path) :
                       ScoreOf(path[k - 1], path[k]) >= ScoreOf(path[k - 1], path[j])

\* Pages 1 and 2 tie for the greatest total (1.0 against 0.2 for page 0): the
\* path starts at page 1 and follows the high scores.
C25_Witness ==
    /\ pc = "walked"
    /\ walk.kind = "path"
    /\ N = 3
    /\ transition_scores = Favouring(<< 1, 2, 0 >>, HighScore, 100)
    /\ walk.ordered_indices = << 1, 2, 0 >>

\* C26: in _create_path_from_transitions, when no unvisited index has a
\* recorded transition score from the current index, all remaining indices
\* are appended at that point in ascending order and the walk ends: the rest
\* of the path is ascending, whatever scores are recorded for later pairs.
C26_RemainingAscending ==
    (pc = "walked" /\ walk.kind = "path") =>
        LET path == walk.ordered_indices
        IN  \A k \in 1..(Len(path) - 1) :
                (\A j \in (k + 1)..Len(path) :
                     <<path[k], path[j]>> \notin DOMAIN transition_scores)
                => Ascending(SubSeq(path, k + 1, Len(path)))

\* The best score from the page at position k - 1 of an order to the pages at
\* positions k and later exceeds 0.3.
Followable(order, k) ==
    \E j \in k..Len(order) : ScoreOf(order[k - 1], order[j]) > 300

\* C27: in _create_embedding_based_order the walk follows a transition only
\* when its score exceeds 0.3, taking the best one; as soon as the best score
\* from the current index to any unvisited index is 0.3 or less, the walk
\* stops and all remaining indices are appended in ascending index order.
C27_FollowAboveThreshold ==
    (pc = "walked" /\ walk.kind = "heuristic") =>
        LET order == walk.ordered_indices
        IN  \A k \in 2..Len(order) :
                /\ (\A i \in 2..k : Followable(order, i)) =>
                       /\ ScoreOf(order[k - 1], order[k]) > 300
                       /\ \A j \in k..Len(order) :
                              ScoreOf(order[k - 1], order[k]) >= ScoreOf(order[k - 1], order[j])
                /\ ((\A i \in 2..(k - 1) : Followable(order, i)) /\ ~Followable(order, k)) =>
                       Ascending(SubSeq(order, k, Len(order)))

\* The walk starts at 4, follows 4 -> 3 (0.9) and stops at 3, from which no
\* score exceeds 0.3: pages 0, 1, 2 are appended in ascending order although
\* 0.4 is recorded for 1 -> 0.
C27_Witness ==
    /\ pc = "walked"
    /\ walk.kind = "heuristic"
    /\ N = 5
    /\ transition_scores = (<<4, 3>> :> 900 @@ <<1, 0>> :> 400)
    /\ walk.ordered_indices = << 4, 3, 0, 1, 2 >>
    /\ walk.steps = 3

\* C30: in _create_embedding_based_order, when several pages tie for the
\* highest start score (all scores 0 included), the page with the greatest
\* index among them is the start; the heuristic order is therefore the
\* identity only if page 0 has a strictly higher start score than every other
\* page.
C30_TiesToGreatestIndex ==
    (pc = "walked" /\ walk.kind = "heuristic") =>
        LET start_page == walk.ordered_indices[1]
            ScoreAt(i) == StartScore(pages[i + 1].text)
        IN  /\ \A i \in 0..(N - 1) :
                   /\ ScoreAt(i) <= ScoreAt(start_page)
                   /\ i > start_page => ScoreAt(i) < ScoreAt(start_page)
            /\ walk.ordered_indices = Range(N) => FirstPageBestStart

\* Two title pages tie for the highest start score and the later one starts.
C30_Witness ==
    /\ pc = "walked"
    /\ walk.kind = "heuristic"
    /\ [k \in 1..Len(pages) |-> pages[k].text] = << TitleText, TitleText, PlainText >>
    /\ walk.ordered_indices[1] = 1

\* C29: if the reconciled order of the non-empty pages is their input order,
\* _reinsert_empty_pages returns exactly the full input sequence, for any
\* number and placement of empty pages (the non-empty pages being the copies
\* that carry original_index).
C29_IdentityRestoresInput ==
    (pc = "finish" /\ OriginalIndices(final_order) = Range(N)) =>
        /\ Len(final_pages_with_empty) = Len(pages)
        /\ \A k \in 1..Len(pages) :
               /\ [final_pages_with_empty[k] EXCEPT !.original_index = Absent] = pages[k]
               /\ final_pages_with_empty[k].original_index
                    = (IF pages[k].is_empty THEN Absent
                       ELSE Cardinality({j \in 1..(k - 1) : ~pages[j].is_empty}))

\* Two leading empty pages and a trailing one around two non-empty pages.
C29_Witness ==
    /\ pc = "finish"
    /\ [k \in 1..Len(pages) |-> pages[k].is_empty] = << TRUE, TRUE, FALSE, FALSE, TRUE >>
    /\ OriginalIndices(final_order) = << 0, 1 >>
    /\ PageNumbers(final_pages_with_empty) = << 1, 2, 3, 4, 5 >>

\* C28: reorder_pdf_pages accepts a page_order only if it contains every page
\* number 1..total_pages exactly once; an order that is empty, has a number
\* outside 1..total_pages, omits a page or repeats a page is rejected with
\* success = False before any output page is written.
C28_OnlyPermutationsAccepted ==
    pc = "reordered" =>
        /\ pdf.success =>
               \A page_num \in 1..pdf.total_pages :
                   Occurrences(pdf.page_order, page_num) = 1
        /\ ( \/ pdf.page_order = <<>>
             \/ \E k \in 1..Len(pdf.page_order) :
                    pdf.page_order[k] \notin 1..pdf.total_pages
             \/ \E page_num \in 1..pdf.total_pages :
                    Occurrences(pdf.page_order, page_num) # 1 )
           => (~pdf.success /\ pdf.written = <<>>)
====
